---- MODULE Spec2Model ----
(***************************************************************************)
(* Model of the viewport fetch / cache controller of src/app.js:           *)
(* the moveend debounce, the overlap skip, the bbox cache with expiry and  *)
(* eviction, and the two abortable fetches fetchNearby / fetchFountains.   *)
(*                                                                         *)
(* Coordinates are integers in hundredths of a degree.  A handler of the   *)
(* page (event listener, timer callback, continuation of an await) is one  *)
(* action.  The rejection of an aborted fetch is delivered as a microtask, *)
(* so it runs before any other task: while one is pending no other action  *)
(* is enabled.  The map view changes only together with a moveend event.   *)
(***************************************************************************)
EXTENDS Integers, Sequences, FiniteSets, TLC

\* ------------------------------------------------------------------ bounds
\* number of fetches that may be alive (in flight or aborted, handler pending)
MaxFetches == 2
\* number of geolocation requests that may be outstanding
MaxLocate == 1
\* number of timer ids the page may hold at once
MaxTimers == 2
\* the clock takes the values k * CACHE_EXPIRE_TIME - {1, 0}, k <= MaxEpoch
MaxEpoch == 1
\* number of elements of a non-empty Overpass response
MaxElems == 60
\* elements of a large response, more than two batches of markers
ManyElems == 250
\* processBatch callbacks pending at the same time
MaxBatches == 2
\* entries the cache holds in the Init state of a long browsing session
PreFill == 49
\* ids of pending animation frame requests
MaxFrames == 3
\* startARMode calls suspended at the same time
MaxARTasks == 2
\* camera streams alive at the same time
MaxStreams == 2

\* --------------------------------------------------------------- constants
MIN_ZOOM_FOR_FETCH == 10
CACHE_EXPIRE_TIME == 10 * 60 * 1000
MAX_CACHE_ENTRIES == 50
\* area > 100 square degrees, in squared hundredths of a degree
MAX_FETCH_AREA == 100 * 10000
\* const batchSize = 100 of renderMarkers
BatchSize == 100

\* ----------------------------------------------------------------- helpers
Abs(x) == IF x < 0 THEN -x ELSE x
Min(a, b) == IF a <= b THEN a ELSE b
Max(a, b) == IF a >= b THEN a ELSE b

Box(s, w, n, e) == [s |-> s, w |-> w, n |-> n, e |-> e]

\* Number.prototype.toFixed(1) on a value given in hundredths: the sign and
\* the magnitude rounded to tenths, ties to the larger magnitude ("-0.0" and
\* "0.0" are different strings).
ToFixed1(x) == [neg |-> x < 0, tenths |-> (Abs(x) + 5) \div 10]

\* the cache key of the timer callback: the four bounds joined with ","
CacheKey(b) == <<ToFixed1(b.s), ToFixed1(b.w), ToFixed1(b.n), ToFixed1(b.e)>>

Area(b) == (b.n - b.s) * (b.e - b.w)

\* L.latLngBounds([[lat1, lng1], [lat2, lng2]]) extends an empty bounds by
\* each corner: the result is the box spanned by the two points, whatever
\* their order, and isValid() is true of it.
LatLngBounds(lat1, lng1, lat2, lng2) ==
  Box(Min(lat1, lat2), Min(lng1, lng2), Max(lat1, lat2), Max(lng1, lng2))

\* bounds1, bounds2 are <<>> (null) or <<box>>
boundsOverlapSignificantly(bounds1, bounds2) ==
  IF bounds1 = <<>> \/ bounds2 = <<>> THEN FALSE
  ELSE LET b1 == bounds1[1]
           b2 == bounds2[1]
           area1 == Area(b1)
           area2 == Area(b2)
           intersection == LatLngBounds(Max(b1.s, b2.s), Max(b1.w, b2.w),
                                        Min(b1.n, b2.n), Min(b1.e, b2.e))
           intersectionArea == Area(intersection)
       IN  IF area2 > area1 * 4 THEN FALSE
           ELSE 10 * intersectionArea > Min(area1, area2) * 7

\* faulty variant: the delays are handed out in the opposite order
getDelayForZoom_Rising(zoom) ==
  IF zoom < 12 THEN 500 ELSE IF zoom < 15 THEN 1000 ELSE 2000

getDelayForZoom(zoom) ==
  IF zoom < 12 THEN 2000 ELSE IF zoom < 15 THEN 1000 ELSE 500

getMaxMarkersForZoom(zoom) ==
  IF zoom < 12 THEN 50
  ELSE IF zoom < 15 THEN 200
  ELSE IF zoom < 17 THEN 500 ELSE 1000

\* ------------------------------------------------------------------- views
\* A view of the map: its zoom and the bounds map.getBounds() returns.
View(z, b) == [zoom |-> z, bounds |-> b]
\* the view after construction: setView([0, 0], 2)
WorldView == View(2, Box(-8500, -18000, 8500, 18000))
\* a town at zoom 11: 0.3 x 0.6 degrees
ViewA     == View(11, Box(5230, 480, 5260, 540))
\* a district at zoom 13 east of ViewA, sharing an edge with it
ViewB     == View(13, Box(5230, 540, 5238, 555))
\* the view map.setView(e.latlng, 16) gives at the user's location, inside ViewA
ViewL     == View(16, Box(5244, 508, 5246, 512))
\* a very large window at zoom 10: 11 x 12 degrees
ViewBig   == View(10, Box(4500, 0, 5600, 1200))
\* a street at zoom 17 east of ViewL and apart from it, inside the same
\* tenth-of-a-degree cell
ViewM     == View(17, Box(5244, 513, 5245, 514))
Views == {WorldView, ViewA, ViewB, ViewL, ViewBig}

\* ---------------------------------------------------------------- the clock
Instants ==
  {t \in {k * CACHE_EXPIRE_TIME + d : k \in 0..MaxEpoch, d \in {-1, 0}} : t >= 0}

\* ------------------------------------------------------------ Overpass data
\* data.elements of a response: the query it answers (<<box>>, or <<>> for the
\* radius query of fetchNearby) and the number of elements.
Elements(src, n) == [src |-> src, n |-> n]
\* elements.slice(0, m)
Slice(elements, m) == [elements EXCEPT !.n = Min(elements.n, m)]

ResponseSizes == {MaxElems}
\* what the network delivers to an awaiting fetch: a 2xx response with a body
\* of n elements, a non-2xx response, or a transport error
Responses ==
  {[kind |-> "ok", n |-> n] : n \in ResponseSizes}
    \cup {[kind |-> "status", n |-> 0], [kind |-> "network", n |-> 0]}

VARIABLES
  view,                    \* the map's zoom and bounds
  now,                     \* Date.now()
  timers,                  \* pending setTimeout callbacks of the moveend handler
  fetchTimeout,            \* the timer id held by fetchTimeout, 0 = undefined
  bboxCache,               \* the Map, as the sequence of its entries in insertion order
  lastFetchBounds,         \* <<>> = null, or <<box>>
  currentFetchController,  \* 0 = null, or the id of the fetch owning the controller
  fetches,                 \* fetches whose await has not resumed yet, in start order
  fountains,               \* window._fountains: <<>> = undefined, or <<elements>>
  locating,                \* outstanding map.locate() requests
  markersCluster,          \* the layers of markersCluster: one group of markers
                           \* for each addLayers call since the last clearLayers
  batches,                 \* pending requestAnimationFrame callbacks of
                           \* processBatch, in request order
  notice,                  \* message shown by the handler that ran last, "none" if none
  burst,                   \* moveend events of the current burst (2 = two or more),
                           \* and timer callbacks run since the last of them
  ev,                      \* the handler that ran last and what it decided
  userLocation,            \* <<>> = null, or <<"user">>: the position last found
  arCanvas,                \* width and height of the AR overlay canvas, in pixels
  currentHeading,          \* the heading resolved last, in half degrees
  isARActive,
  arStream,                \* 0 = undefined or null, or the id of a camera stream
  deviceOrientationWatcher,\* TRUE iff it holds deviceOrientationHandler
  animationFrameId,        \* 0 = undefined or null, or the id of a frame request
  arInfo,                  \* the status text of the AR view
  hidden,                  \* document.hidden
  platform,                \* what the browser supports
  arTasks,                 \* startARMode calls suspended at an await, in call order
  streams,                 \* camera streams acquired and not stopped
  listening,               \* deviceOrientationHandler is registered on window
  frames,                  \* pending requestAnimationFrame callbacks of arRenderLoop
  lastEvent,               \* the orientation event delivered last, <<>> if none
  drawn                    \* what the last call of drawAR did

\* the state of the map and of the viewport fetch controller
mapVars == <<view, now, timers, fetchTimeout, bboxCache, lastFetchBounds,
             currentFetchController, fetches, fountains, locating, burst,
             markersCluster, batches>>

\* the state of the AR view
arVars == <<arCanvas, currentHeading, isARActive, arStream,
            deviceOrientationWatcher, animationFrameId, arInfo, hidden,
            platform, arTasks, streams, listening, frames, lastEvent, drawn>>

vars == <<mapVars, notice, ev, userLocation, arVars>>

Burst(moves, fires) == [moves |-> moves, fires |-> fires]

\* op: the handler; outcome: what the moveend handler or the timer callback decided; superseded:
\* a newer fetch had been started before this fetch's handler ran; intact:
\* window._fountains and bboxCache have kept, since this fetch started and
\* through its handler, the values they had when it started
Event(op, outcome, superseded, intact) ==
  [op |-> op, outcome |-> outcome, superseded |-> superseded, intact |-> intact]

\* --------------------------------------------------------------- the cache
Entry(key, data, timestamp) == [key |-> key, data |-> data, timestamp |-> timestamp]

CacheIndex(cache, key) ==
  IF \E i \in 1..Len(cache) : cache[i].key = key
  THEN CHOOSE i \in 1..Len(cache) : cache[i].key = key
  ELSE 0

\* the entries a long session has left behind: PreFill viewports of the size
\* of ViewA, each the eastern neighbour of the one before, the last one the
\* western neighbour of ViewA
Filler(i) ==
  Box(5230, 480 - 60 * (PreFill + 1 - i), 5260, 540 - 60 * (PreFill + 1 - i))
PreFilledCache ==
  [i \in 1..PreFill |->
     Entry(CacheKey(Filler(i)), Elements(<<Filler(i)>>, 0), i - PreFill - 1)]

\* stable sort by timestamp (Array.prototype.sort): the position entry i gets
SortedPosition(cache, i) ==
  1 + Cardinality({j \in 1..Len(cache) :
        \/ cache[j].timestamp < cache[i].timestamp
        \/ cache[j].timestamp = cache[i].timestamp /\ j < i})

\* faulty variant: the size test lets the cache grow one entry past the limit
NeedsEviction_Late(cache) == Len(cache) > MAX_CACHE_ENTRIES

NeedsEviction(cache) == Len(cache) >= MAX_CACHE_ENTRIES

\* faulty variant: the sort is descending, the newest half is removed
ToRemove_Newest(cache) ==
  {cache[i].key : i \in {j \in 1..Len(cache) :
                           SortedPosition(cache, j) > Len(cache) - MAX_CACHE_ENTRIES \div 2}}

\* entries.slice(0, Math.floor(MAX_CACHE_ENTRIES / 2)) of the sorted entries
ToRemove(cache) ==
  {cache[i].key : i \in {j \in 1..Len(cache) :
                           SortedPosition(cache, j) <= MAX_CACHE_ENTRIES \div 2}}

Evict(cache) ==
  LET toRemove == ToRemove(cache)
  IN  IF NeedsEviction(cache)
      THEN SelectSeq(cache, LAMBDA en : en.key \notin toRemove)
      ELSE cache

\* Map.prototype.set: an existing key keeps its place in the insertion order
MapSet(cache, key, data, timestamp) ==
  IF CacheIndex(cache, key) = 0
  THEN Append(cache, Entry(key, data, timestamp))
  ELSE [cache EXCEPT ![CacheIndex(cache, key)] = Entry(key, data, timestamp)]

\* the cache management of fetchFountains followed by bboxCache.set
CachePut(cache, key, data, timestamp) ==
  MapSet(Evict(cache), key, data, timestamp)

\* faulty variant: an entry exactly CACHE_EXPIRE_TIME old still counts as fresh
CacheFresh_Inclusive(cache, key, t) ==
  /\ CacheIndex(cache, key) # 0
  /\ t - cache[CacheIndex(cache, key)].timestamp <= CACHE_EXPIRE_TIME

\* cached && Date.now() - cached.timestamp < CACHE_EXPIRE_TIME
CacheFresh(cache, key, t) ==
  /\ CacheIndex(cache, key) # 0
  /\ t - cache[CacheIndex(cache, key)].timestamp < CACHE_EXPIRE_TIME

\* ------------------------------------------------------------ renderMarkers
\* faulty variant: the elements are published without the zoom limit
renderMarkers_Unlimited(elements, zoom) == <<elements>>

\* the value renderMarkers(elements) leaves in window._fountains
renderMarkers(elements, zoom) ==
  <<Slice(elements, getMaxMarkersForZoom(zoom))>>

\* processBatch(startIndex) of a renderMarkers call on filteredElements (every
\* element has coordinates): the callback it requests, holding the next
\* start index, or the markers it hands to markersCluster.addLayers
processBatch(filteredElements, startIndex) ==
  LET endIndex == Min(startIndex + BatchSize, filteredElements.n)
  IN  IF endIndex < filteredElements.n
      THEN [requested |-> <<[elements |-> filteredElements, startIndex |-> endIndex]>>,
            added |-> <<>>]
      ELSE [requested |-> <<>>, added |-> <<filteredElements>>]

\* renderMarkers(elements) on the marker layers: clearLayers, then
\* processBatch(0) unless the list is empty
RenderLayers(elements, zoom) ==
  LET filteredElements == Slice(elements, getMaxMarkersForZoom(zoom))
      first == processBatch(filteredElements, 0)
  IN  IF filteredElements.n = 0
      THEN markersCluster' = <<>> /\ UNCHANGED batches
      ELSE /\ Len(batches \o first.requested) <= MaxBatches
           /\ markersCluster' = first.added
           /\ batches' = batches \o first.requested

\* ------------------------------------------------------------------ timers
Timer(id, delay) == [id |-> id, delay |-> delay]
TimerIds == 1..MaxTimers
FreeTimerIds(ts) == TimerIds \ {t.id : t \in ts}
NewTimerId(ts) == CHOOSE i \in FreeTimerIds(ts) : \A j \in FreeTimerIds(ts) : i <= j

\* faulty variant: the timer is not cancelled
clearTimeout_Leaky(ts, id) == ts

clearTimeout(ts, id) == {t \in ts : t.id # id}

BelowFetchZoom(zoom) == zoom < MIN_ZOOM_FOR_FETCH

\* ----------------------------------------------------------------- fetches
FetchIds == 1..MaxFetches
FreeFetchIds(fs) == FetchIds \ {fs[i].id : i \in 1..Len(fs)}
NewFetchId(fs) == CHOOSE i \in FreeFetchIds(fs) : \A j \in FreeFetchIds(fs) : i <= j

\* a microtask is pending: the rejection of an aborted fetch
MicrotaskPending == \E i \in 1..Len(fetches) : fetches[i].status = "aborted"

\* if (currentFetchController) currentFetchController.abort(): the fetch that
\* listens to the controller's signal is rejected with AbortError
AbortCurrent(fs, ctrl) ==
  [i \in 1..Len(fs) |->
     IF ctrl # 0 /\ fs[i].id = ctrl THEN [fs[i] EXCEPT !.status = "aborted"] ELSE fs[i]]

\* every fetch alive when a new one starts has been superseded
MarkSuperseded(fs) == [i \in 1..Len(fs) |-> [fs[i] EXCEPT !.superseded = TRUE]]

\* the synchronous part of fetchNearby / fetchFountains, up to the await
StartFetch(fs, ctrl, kind, query, key) ==
  Append(MarkSuperseded(AbortCurrent(fs, ctrl)),
         [id |-> NewFetchId(fs), kind |-> kind, query |-> query, key |-> key,
          status |-> "inflight", superseded |-> FALSE, touched |-> FALSE])

\* a handler that gives window._fountains or bboxCache another value marks
\* every fetch that is alive across it
Touch(fs, changed) ==
  [i \in 1..Len(fs) |-> IF changed THEN [fs[i] EXCEPT !.touched = TRUE] ELSE fs[i]]

RemoveAt(seq, i) == [j \in 1..(Len(seq) - 1) |-> IF j < i THEN seq[j] ELSE seq[j + 1]]

\* ------------------------------------------------------------------ drawAR
\* Angles are integers in half degrees, distances integers in metres.  An
\* element of window._fountains is given by what drawAR computes from its
\* coordinates: whether it has any, its distance from userLocation and its
\* bearing ((atan2 + 360) % 360, in [0, 360) degrees).
HFOV_DEGREES == 75
MAX_AR_DISTANCE == 1000
MAX_RENDERED == 5

HalfDegrees(deg) == 2 * deg

\* Doubles.  The angles of the model are multiples of half a degree far below
\* 2^53, on which + and - are exact, and the value Huge, which stands for
\* the double 360 * 2^60, a whole number of turns: adding or subtracting a few
\* hundred is absorbed by rounding there (x + 360 = x).
Huge == 720 * 2^20
IsHuge(x) == Abs(x) >= Huge
FSub(a, b) ==
  IF IsHuge(b) THEN (IF b > 0 THEN -Huge ELSE Huge)
  ELSE IF IsHuge(a) THEN a ELSE a - b
FAdd(a, b) == IF IsHuge(a) THEN a ELSE a + b

\* The outcome of a loop is a record: ends = TRUE with the value it leaves,
\* or ends = FALSE if it runs for ever.

RECURSIVE WhileAtMostMinus180(_)
\* while (relativeAngle <= -180) relativeAngle += 360;
WhileAtMostMinus180(x) ==
  IF x <= -HalfDegrees(180)
  THEN IF FAdd(x, HalfDegrees(360)) = x THEN [ends |-> FALSE, value |-> x]
       ELSE WhileAtMostMinus180(FAdd(x, HalfDegrees(360)))
  ELSE [ends |-> TRUE, value |-> x]

RECURSIVE WhileAbove180(_)
\* while (relativeAngle > 180) relativeAngle -= 360;
WhileAbove180(x) ==
  IF x > HalfDegrees(180)
  THEN IF FSub(x, HalfDegrees(360)) = x THEN [ends |-> FALSE, value |-> x]
       ELSE WhileAbove180(FSub(x, HalfDegrees(360)))
  ELSE [ends |-> TRUE, value |-> x]

\* let relativeAngle = bearing - heading, followed by the two loops
relativeAngle(bearing, heading) ==
  LET up == WhileAtMostMinus180(FSub(bearing, heading))
  IN  IF up.ends THEN WhileAbove180(up.value) ELSE up

Point(id, coords, dist, bearing, name) ==
  [id |-> id, coords |-> coords, dist |-> dist, bearing |-> bearing, name |-> name]

\* window._fountains || []
FountainsOrEmpty(fnt) == IF fnt = <<>> THEN <<>> ELSE fnt[1]

\* the callback of .map() reaches the loops for element f
ReachesLoops(f) == f.coords /\ f.dist <= MAX_AR_DISTANCE

\* the callback of .map(): <<>> = null, or <<marker>>
MapCallback(f, heading) ==
  IF ~ReachesLoops(f) THEN <<>>
  ELSE <<[id |-> f.id,
          name |-> IF f.name = "" THEN "Drinking water" ELSE f.name,
          dist |-> f.dist,
          relativeAngle |-> relativeAngle(f.bearing, heading).value]>>

\* .filter(f => f !== null && Math.abs(f.relativeAngle) <= HFOV_DEGREES / 2):
\* the angle is in half degrees, so both sides are doubled
FilterCallback(m) == m # <<>> /\ Abs(m[1].relativeAngle) <= HFOV_DEGREES

RECURSIVE MapFilter(_, _)
MapFilter(elements, heading) ==
  IF elements = <<>> THEN <<>>
  ELSE LET m == MapCallback(Head(elements), heading)
       IN  (IF FilterCallback(m) THEN m ELSE <<>>) \o MapFilter(Tail(elements), heading)

RECURSIVE SortByDist(_)
\* .sort((a, b) => a.dist - b.dist): a stable sort
SortByDist(ms) ==
  IF ms = <<>> THEN <<>>
  ELSE LET k == CHOOSE i \in 1..Len(ms) :
                  \A j \in 1..Len(ms) :
                    ms[j].dist > ms[i].dist \/ (ms[j].dist = ms[i].dist /\ j >= i)
       IN  <<ms[k]>> \o SortByDist(RemoveAt(ms, k))

\* faulty variant: no limit on the number of markers
SliceRendered_All(ms) == ms

\* .slice(0, 5)
SliceRendered(ms) == SubSeq(ms, 1, Min(Len(ms), MAX_RENDERED))

\* Screen coordinates are kept as exact multiples: screenX in 1/1500 pixel,
\* screenY in 1/10000 pixel, yRatio and iconRadius in thousandths.

\* faulty variant: the markers spread over 1.1 times the half width
ScreenX_Wide(angle, canvas) == 750 * canvas.width + 11 * angle * canvas.width

\* canvasCenterX + (f.relativeAngle / (HFOV_DEGREES / 2)) * (canvasCenterX * 0.9)
\* with canvasCenterX = width / 2 and the angle in half degrees:
\* width/2 + (angle/75) * (width/2) * (9/10)
ScreenX(angle, canvas) == 750 * canvas.width + 9 * angle * canvas.width

\* Math.max(0, Math.min(1, 1 - (f.dist / MAX_AR_DISTANCE)))
YRatio(dist) == Max(0, Min(1000, 1000 - dist))

\* canvasBottomY - (yRatio * (canvasBottomY - projectionMaxY)) with
\* canvasBottomY = height - 80 and projectionMaxY = height * 0.3
ScreenY(dist, canvas) ==
  10000 * (canvas.height - 80) - YRatio(dist) * (7 * canvas.height - 800)

\* 10 + (8 * yRatio)
IconRadius(dist) == 10 * 1000 + 8 * YRatio(dist)

\* what arFountains.forEach draws for marker f
Project(f, canvas) ==
  [id |-> f.id, name |-> f.name, dist |-> f.dist, relativeAngle |-> f.relativeAngle,
   screenX |-> ScreenX(f.relativeAngle, canvas),
   screenY |-> ScreenY(f.dist, canvas),
   iconRadius |-> IconRadius(f.dist)]

\* arInfo.textContent
Status(kind, dist, name, count) ==
  [kind |-> kind, dist |-> dist, name |-> name, count |-> count]

\* the status drawAR writes after the markers
StatusOf(arFountains, fnt) ==
  IF Len(arFountains) > 0
  THEN Status("nearest", arFountains[1].dist, arFountains[1].name, 0)
  ELSE IF Len(FountainsOrEmpty(fnt)) > 0
       THEN Status("none in view", 0, "", Len(FountainsOrEmpty(fnt)))
       ELSE Status("none found", 0, "", 0)

\* what a call of drawAR did: ran = FALSE before the first call; ends = FALSE
\* if the call never returns; heading and canvas are its inputs, markers the
\* arcs drawn
Drawing(ran, ends, heading, canvas, markers) ==
  [ran |-> ran, ends |-> ends, heading |-> heading, canvas |-> canvas,
   markers |-> markers]
NotDrawn == Drawing(FALSE, TRUE, 0, [width |-> 0, height |-> 0], <<>>)

\* drawAR never returns: a loop spins on some element
drawARSpins(heading, fnt, loc) ==
  /\ loc # <<>>
  /\ \E i \in 1..Len(FountainsOrEmpty(fnt)) :
       /\ ReachesLoops(FountainsOrEmpty(fnt)[i])
       /\ ~relativeAngle(FountainsOrEmpty(fnt)[i].bearing, heading).ends

\* the array arFountains of drawAR
arFountainsOf(heading, fnt) ==
  SliceRendered(SortByDist(MapFilter(FountainsOrEmpty(fnt), heading)))

\* drawAR(heading): the drawing and the new status
drawAR(heading, fnt, loc, canvas, info) ==
  IF loc = <<>>
  THEN [drawn |-> Drawing(TRUE, TRUE, heading, canvas, <<>>),
        arInfo |-> Status("no location", 0, "", 0)]
  ELSE IF drawARSpins(heading, fnt, loc)
  THEN [drawn |-> Drawing(TRUE, FALSE, heading, canvas, <<>>), arInfo |-> info]
  ELSE LET arFountains == arFountainsOf(heading, fnt)
       IN  [drawn |-> Drawing(TRUE, TRUE, heading, canvas,
                              [i \in 1..Len(arFountains) |->
                                 Project(arFountains[i], canvas)]),
            arInfo |-> StatusOf(arFountains, fnt)]

\* ------------------------------------------------------------ the platform
\* what the browser supports: navigator.mediaDevices.getUserMedia,
\* DeviceOrientationEvent.requestPermission, window.DeviceOrientationEvent
Platform(media, permission, orientation) ==
  [media |-> media, permission |-> permission, orientation |-> orientation]
Phone == Platform(TRUE, FALSE, TRUE)
\* iOS Safari, which asks for the sensor; a phone that does not; a desktop
\* without the sensor; a browser without a camera
Platforms ==
  {Platform(TRUE, TRUE, TRUE), Phone, Platform(TRUE, FALSE, FALSE),
   Platform(FALSE, FALSE, TRUE)}

Canvas(width, height) == [width |-> width, height |-> height]
\* window.innerWidth x window.innerHeight: a phone upright and on its side
WindowSizes == {Canvas(400, 800), Canvas(800, 400)}

\* -------------------------------------------------------------------- Init
\* After construction and DOMContentLoaded: the map shows the world at zoom 2,
\* map.locate() is outstanding, nothing is cached.
InitFresh ==
  /\ bboxCache = <<>>
  /\ lastFetchBounds = <<>>
  /\ fountains = <<>>
  /\ markersCluster = <<>>
  /\ batches = <<>>
  /\ locating = 1
  /\ userLocation = <<>>

\* Late in a session: the user, located long ago, has panned east one
\* viewport at a time; the last fetch was for the western neighbour of ViewA
\* and its result is the current set.
InitBrowsed ==
  /\ bboxCache = PreFilledCache
  /\ lastFetchBounds = <<Filler(PreFill)>>
  /\ fountains = renderMarkers(Elements(<<Filler(PreFill)>>, 0), ViewA.zoom)
  /\ markersCluster = <<>>
  /\ batches = <<>>
  /\ locating = 0
  /\ userLocation = <<"user">>

\* the AR view after construction, on a canvas of the default size
InitIdleAR ==
  /\ arCanvas = Canvas(300, 150)
  /\ currentHeading = 0
  /\ isARActive = FALSE
  /\ arStream = 0
  /\ deviceOrientationWatcher = FALSE
  /\ animationFrameId = 0
  /\ arInfo = Status("initial", 0, "", 0)
  /\ hidden = FALSE
  /\ arTasks = <<>>
  /\ streams = {}
  /\ listening = FALSE
  /\ frames = {}
  /\ lastEvent = <<>>
  /\ drawn = NotDrawn

InitCommon ==
  /\ platform = Phone
  /\ InitIdleAR
  /\ view = WorldView
  /\ now = 0
  /\ timers = {}
  /\ fetchTimeout = 0
  /\ currentFetchController = 0
  /\ fetches = <<>>
  /\ notice = "none"
  /\ burst = Burst(0, 0)
  /\ ev = Event("init", "-", FALSE, TRUE)

Init == InitCommon /\ InitFresh

InitCache == InitCommon /\ InitBrowsed

\* ----------------------------------------------------------------- moveend
\* faulty variant: below the fetch zoom the handler returns without cancelling
MoveEndTimers_NoCancel(zoom, ts, ft) ==
  IF BelowFetchZoom(zoom)
  THEN [timers |-> ts, fetchTimeout |-> ft]
  ELSE LET cleared == clearTimeout(ts, ft)
           id == NewTimerId(cleared)
       IN  [timers |-> cleared \cup {Timer(id, getDelayForZoom(zoom))},
            fetchTimeout |-> id]

\* the body of map.on('moveend'): the timers and fetchTimeout it leaves
MoveEndTimers(zoom, ts, ft) ==
  IF BelowFetchZoom(zoom)
  THEN [timers |-> clearTimeout(ts, ft), fetchTimeout |-> ft]
  ELSE LET cleared == clearTimeout(ts, ft)
           id == NewTimerId(cleared)
       IN  [timers |-> cleared \cup {Timer(id, getDelayForZoom(zoom))},
            fetchTimeout |-> id]

MoveEndEnabled(zoom, ts, ft) ==
  BelowFetchZoom(zoom) \/ FreeTimerIds(clearTimeout(ts, ft)) # {}

\* what the handler did to the debounce timer
MoveEndOutcome(zoom, ts, ft) ==
  IF BelowFetchZoom(zoom)
  THEN IF clearTimeout(ts, ft) # ts THEN "cancelled" ELSE "idle"
  ELSE IF clearTimeout(ts, ft) # ts THEN "rescheduled" ELSE "scheduled"

\* a moveend that arrives while a timer is pending continues the burst
MoveEndBurst(zoom, ts, b) ==
  IF BelowFetchZoom(zoom) THEN Burst(0, 0)
  ELSE Burst(IF ts # {} THEN Min(b.moves + 1, 2) ELSE 1, 0)

\* the user pans or zooms to view v and the map fires moveend
MoveEnd(v) ==
  /\ ~MicrotaskPending
  /\ MoveEndEnabled(v.zoom, timers, fetchTimeout)
  /\ view' = v
  /\ timers' = MoveEndTimers(v.zoom, timers, fetchTimeout).timers
  /\ fetchTimeout' = MoveEndTimers(v.zoom, timers, fetchTimeout).fetchTimeout
  /\ burst' = MoveEndBurst(v.zoom, timers, burst)
  /\ notice' = "none"
  /\ ev' = Event("moveend", MoveEndOutcome(v.zoom, timers, fetchTimeout), FALSE, TRUE)
  /\ UNCHANGED <<now, bboxCache, lastFetchBounds, currentFetchController,
                 fetches, fountains, locating>>
  /\ UNCHANGED userLocation
  /\ UNCHANGED arVars
  /\ UNCHANGED <<markersCluster, batches>>

\* ------------------------------------------------------ the timer callback
\* faulty variant: the callback goes on to fetch whatever the area
TimerOutcome_Unguarded(bounds, lfb, cache, t) ==
  IF boundsOverlapSignificantly(lfb, <<bounds>>) THEN "skip"
  ELSE IF CacheFresh(cache, CacheKey(bounds), t) THEN "hit"
  ELSE "fetch"

\* what the callback decides, in the order of its tests
TimerOutcome(bounds, lfb, cache, t) ==
  IF boundsOverlapSignificantly(lfb, <<bounds>>) THEN "skip"
  ELSE IF CacheFresh(cache, CacheKey(bounds), t) THEN "hit"
  ELSE IF Area(bounds) > MAX_FETCH_AREA THEN "toolarge"
  ELSE "fetch"

\* lastFetchBounds after the callback
TimerLastFetchBounds(outcome, bounds, lfb) ==
  IF outcome = "fetch" THEN <<bounds>> ELSE lfb

TimerFire(t) ==
  LET bounds == view.bounds
      key == CacheKey(bounds)
      outcome == TimerOutcome(bounds, lastFetchBounds, bboxCache, now)
  IN  /\ ~MicrotaskPending
      /\ t \in timers
      /\ outcome = "fetch" => FreeFetchIds(fetches) # {}
      /\ timers' = timers \ {t}
      /\ burst' = [burst EXCEPT !.fires = burst.fires + 1]
      /\ fountains' = IF outcome = "hit"
                      THEN renderMarkers(bboxCache[CacheIndex(bboxCache, key)].data,
                                         view.zoom)
                      ELSE fountains
      /\ fetches' = IF outcome = "fetch"
                    THEN StartFetch(fetches, currentFetchController, "bbox",
                                    <<bounds>>, key)
                    ELSE Touch(fetches, fountains' # fountains)
      /\ currentFetchController' = IF outcome = "fetch"
                                   THEN NewFetchId(fetches)
                                   ELSE currentFetchController
      /\ lastFetchBounds' = TimerLastFetchBounds(outcome, bounds, lastFetchBounds)
      /\ notice' = "none"
      /\ ev' = Event("timer", outcome, FALSE, TRUE)
      /\ UNCHANGED <<view, now, fetchTimeout, bboxCache, locating>>
      /\ UNCHANGED userLocation
      /\ UNCHANGED arVars
      /\ IF outcome = "hit"
         THEN RenderLayers(bboxCache[CacheIndex(bboxCache, key)].data, view.zoom)
         ELSE UNCHANGED <<markersCluster, batches>>

\* ---------------------------------------------------------------- location
\* map.on('locationfound'): the map moves to the user (moveend fires) and
\* fetchNearby starts
LocationFound ==
  /\ ~MicrotaskPending
  /\ locating > 0
  /\ FreeFetchIds(fetches) # {}
  /\ MoveEndEnabled(ViewL.zoom, timers, fetchTimeout)
  /\ locating' = locating - 1
  /\ view' = ViewL
  /\ timers' = MoveEndTimers(ViewL.zoom, timers, fetchTimeout).timers
  /\ fetchTimeout' = MoveEndTimers(ViewL.zoom, timers, fetchTimeout).fetchTimeout
  /\ burst' = MoveEndBurst(ViewL.zoom, timers, burst)
  /\ fetches' = StartFetch(fetches, currentFetchController, "nearby", <<>>, <<>>)
  /\ currentFetchController' = NewFetchId(fetches)
  /\ notice' = "none"
  /\ ev' = Event("locationfound", "-", FALSE, TRUE)
  /\ UNCHANGED <<now, bboxCache, lastFetchBounds, fountains>>
  /\ userLocation' = <<"user">>
  /\ UNCHANGED arVars
  /\ UNCHANGED <<markersCluster, batches>>

\* map.on('locationerror'): an alert
LocationError ==
  /\ ~MicrotaskPending
  /\ locating > 0
  /\ locating' = locating - 1
  /\ notice' = "location"
  /\ ev' = Event("locationerror", "-", FALSE, TRUE)
  /\ UNCHANGED <<view, now, timers, fetchTimeout, bboxCache, lastFetchBounds,
                 currentFetchController, fetches, fountains, burst>>
  /\ UNCHANGED userLocation
  /\ UNCHANGED arVars
  /\ UNCHANGED <<markersCluster, batches>>

\* the refresh button: bboxCache.clear(); initializeLocation()
RefreshClick ==
  /\ ~MicrotaskPending
  /\ locating < MaxLocate
  /\ bboxCache' = <<>>
  /\ locating' = locating + 1
  /\ fetches' = Touch(fetches, bboxCache # <<>>)
  /\ notice' = "none"
  /\ ev' = Event("refresh", "-", FALSE, TRUE)
  /\ UNCHANGED <<view, now, timers, fetchTimeout, lastFetchBounds,
                 currentFetchController, fountains, burst>>
  /\ UNCHANGED userLocation
  /\ UNCHANGED arVars
  /\ UNCHANGED <<markersCluster, batches>>

\* time passes between two tasks
Tick ==
  /\ ~MicrotaskPending
  /\ \E t \in Instants : t > now /\ now' = t
  /\ notice' = "none"
  /\ ev' = Event("tick", "-", FALSE, TRUE)
  /\ UNCHANGED <<view, timers, fetchTimeout, bboxCache, lastFetchBounds,
                 currentFetchController, fetches, fountains, locating,
                 burst>>
  /\ UNCHANGED userLocation
  /\ UNCHANGED arVars
  /\ UNCHANGED <<markersCluster, batches>>

\* --------------------------------------------- the continuations of a fetch
Succeeded(r) == r.kind = "ok"

\* faulty variant: the finally block leaves the controller in place
FinallyController_Keep(ctrl) == ctrl

\* finally { hideLoadingIndicator(); currentFetchController = null; }
FinallyController(ctrl) == 0

\* the catch block of a failure that is no AbortError: showNotification
ErrorNotice(kind) == IF kind = "bbox" THEN "bbox-failed" ELSE "nearby-failed"

\* faulty variant: the cache is written before the response status is tested
CacheAfterFountains_Unchecked(cache, f, r, t) ==
  CachePut(cache, f.key, Elements(f.query, r.n), t)

\* bboxCache after the try block of fetchFountains has run on response r
CacheAfterFountains(cache, f, r, t) ==
  IF Succeeded(r) THEN CachePut(cache, f.key, Elements(f.query, r.n), t) ELSE cache

\* window._fountains after the try block of either fetch has run on response r
FountainsAfterFetch(fnt, f, r, zoom) ==
  IF Succeeded(r) THEN renderMarkers(Elements(f.query, r.n), zoom) ELSE fnt

\* fetchFountains resumes from its await with a response or a transport error
fetchFountainsResume(i, r) ==
  LET f == fetches[i]
      cache == CacheAfterFountains(bboxCache, f, r, now)
      fnt == FountainsAfterFetch(fountains, f, r, view.zoom)
  IN  /\ ~MicrotaskPending
      /\ f.kind = "bbox"
      /\ f.status = "inflight"
      /\ bboxCache' = cache
      /\ fountains' = fnt
      /\ notice' = IF Succeeded(r) THEN "none" ELSE ErrorNotice(f.kind)
      /\ currentFetchController' = FinallyController(currentFetchController)
      /\ fetches' = Touch(RemoveAt(fetches, i), fnt # fountains \/ cache # bboxCache)
      /\ ev' = Event(IF Succeeded(r) THEN "bboxOk" ELSE "bboxFail", "-",
                     f.superseded,
                     ~f.touched /\ fnt = fountains /\ cache = bboxCache)
      /\ UNCHANGED <<view, now, timers, fetchTimeout, lastFetchBounds, locating,
                     burst>>
      /\ UNCHANGED userLocation
      /\ UNCHANGED arVars
      /\ IF Succeeded(r)
         THEN RenderLayers(Elements(f.query, r.n), view.zoom)
         ELSE UNCHANGED <<markersCluster, batches>>

\* fetchFountains resumes with the AbortError of its aborted controller
fetchFountainsCancelled(i) ==
  LET f == fetches[i]
  IN  /\ f.kind = "bbox"
      /\ f.status = "aborted"
      /\ notice' = "none"
      /\ currentFetchController' = FinallyController(currentFetchController)
      /\ fetches' = RemoveAt(fetches, i)
      /\ ev' = Event("bboxAbort", "-", f.superseded, ~f.touched)
      /\ UNCHANGED <<view, now, timers, fetchTimeout, bboxCache, lastFetchBounds,
                     fountains, locating, burst>>
      /\ UNCHANGED userLocation
      /\ UNCHANGED arVars
      /\ UNCHANGED <<markersCluster, batches>>

\* fetchNearby resumes from its await with a response or a transport error
fetchNearbyResume(i, r) ==
  LET f == fetches[i]
      fnt == FountainsAfterFetch(fountains, f, r, view.zoom)
  IN  /\ ~MicrotaskPending
      /\ f.kind = "nearby"
      /\ f.status = "inflight"
      /\ fountains' = fnt
      /\ notice' = IF Succeeded(r) THEN "none" ELSE ErrorNotice(f.kind)
      /\ currentFetchController' = FinallyController(currentFetchController)
      /\ fetches' = Touch(RemoveAt(fetches, i), fnt # fountains)
      /\ ev' = Event(IF Succeeded(r) THEN "nearbyOk" ELSE "nearbyFail", "-",
                     f.superseded, ~f.touched /\ fnt = fountains)
      /\ UNCHANGED <<view, now, timers, fetchTimeout, bboxCache, lastFetchBounds,
                     locating, burst>>
      /\ UNCHANGED userLocation
      /\ UNCHANGED arVars
      /\ IF Succeeded(r)
         THEN RenderLayers(Elements(f.query, r.n), view.zoom)
         ELSE UNCHANGED <<markersCluster, batches>>

\* fetchNearby resumes with the AbortError of its aborted controller
fetchNearbyCancelled(i) ==
  LET f == fetches[i]
  IN  /\ f.kind = "nearby"
      /\ f.status = "aborted"
      /\ notice' = "none"
      /\ currentFetchController' = FinallyController(currentFetchController)
      /\ fetches' = RemoveAt(fetches, i)
      /\ ev' = Event("nearbyAbort", "-", f.superseded, ~f.touched)
      /\ UNCHANGED <<view, now, timers, fetchTimeout, bboxCache, lastFetchBounds,
                     fountains, locating, burst>>
      /\ UNCHANGED userLocation
      /\ UNCHANGED arVars
      /\ UNCHANGED <<markersCluster, batches>>

\* an animation frame: every pending processBatch callback runs, in request
\* order; the callbacks they request wait for the next frame
AnimationFrame ==
  LET last == SelectSeq(batches, LAMBDA b :
                processBatch(b.elements, b.startIndex).requested = <<>>)
      more == SelectSeq(batches, LAMBDA b :
                processBatch(b.elements, b.startIndex).requested # <<>>)
  IN  /\ ~MicrotaskPending
      /\ batches # <<>>
      /\ markersCluster' = markersCluster \o [i \in 1..Len(last) |-> last[i].elements]
      /\ batches' = [i \in 1..Len(more) |->
                       processBatch(more[i].elements, more[i].startIndex).requested[1]]
      /\ notice' = "none"
      /\ ev' = Event("animationframe", "-", FALSE, TRUE)
      /\ UNCHANGED <<view, now, timers, fetchTimeout, bboxCache, lastFetchBounds,
                     currentFetchController, fetches, fountains, locating, burst>>
      /\ UNCHANGED userLocation
      /\ UNCHANGED arVars

\* ------------------------------------------------------------- the AR view
\* the page is stuck in a loop of drawAR: no task runs any more
Hung == drawn.ran /\ ~drawn.ends

\* requestAnimationFrame returns an id no pending request has; the model
\* also avoids the id animationFrameId still holds
FreeFrameIds(fr, afid) == (1..MaxFrames) \ (fr \cup {afid})
NewFrameId(fr, afid) ==
  CHOOSE i \in FreeFrameIds(fr, afid) : \A j \in FreeFrameIds(fr, afid) : i <= j

\* if (animationFrameId) cancelAnimationFrame(animationFrameId)
cancelAnimationFrame(fr, afid) == fr \ {afid}

\* the AR state a function leaves behind
ARState(active, stream, live, watcher, listen, afid, fr, info, d) ==
  [isARActive |-> active, arStream |-> stream, streams |-> live,
   deviceOrientationWatcher |-> watcher, listening |-> listen,
   animationFrameId |-> afid, frames |-> fr, arInfo |-> info, drawn |-> d]

CurrentAR ==
  ARState(isARActive, arStream, streams, deviceOrientationWatcher, listening,
          animationFrameId, frames, arInfo, drawn)

\* faulty variant: the frame is drawn with the heading of the frame before it
arRenderLoop_Stale(s) ==
  IF ~s.isARActive THEN s
  ELSE LET r == drawAR(s.drawn.heading, fountains, userLocation, arCanvas, s.arInfo)
           id == NewFrameId(s.frames, s.animationFrameId)
       IN  IF ~r.drawn.ends
           THEN [s EXCEPT !.drawn = r.drawn]
           ELSE [s EXCEPT !.drawn = r.drawn, !.arInfo = r.arInfo,
                          !.animationFrameId = id, !.frames = s.frames \cup {id}]

\* arRenderLoop(): if (!isARActive) return; drawAR(currentHeading);
\* animationFrameId = requestAnimationFrame(arRenderLoop)
arRenderLoop(s) ==
  IF ~s.isARActive THEN s
  ELSE LET r == drawAR(currentHeading, fountains, userLocation, arCanvas, s.arInfo)
           id == NewFrameId(s.frames, s.animationFrameId)
       IN  IF ~r.drawn.ends
           THEN [s EXCEPT !.drawn = r.drawn]
           ELSE [s EXCEPT !.drawn = r.drawn, !.arInfo = r.arInfo,
                          !.animationFrameId = id, !.frames = s.frames \cup {id}]

\* arRenderLoop can take an id for its request
arRenderLoopEnabled(s) ==
  s.isARActive => FreeFrameIds(s.frames, s.animationFrameId) # {}

\* window.removeEventListener(type, deviceOrientationWatcher): the listener
\* was added with useCapture = true and is looked up with useCapture = false,
\* so that no listener matches
removeEventListener(listen) == listen

\* stopAR()
stopAR(s) ==
  [s EXCEPT !.isARActive = FALSE,
            !.streams = s.streams \ {s.arStream},
            !.arStream = 0,
            !.listening = IF s.deviceOrientationWatcher
                          THEN removeEventListener(s.listening) ELSE s.listening,
            !.deviceOrientationWatcher = FALSE,
            !.frames = cancelAnimationFrame(s.frames, s.animationFrameId),
            !.animationFrameId = 0,
            !.arInfo = Status("finding", 0, "", 0)]

\* startAR(), on a platform with window.DeviceOrientationEvent
startAR(s) ==
  LET t == arRenderLoop([s EXCEPT !.deviceOrientationWatcher = TRUE,
                                  !.listening = TRUE,
                                  !.frames = cancelAnimationFrame(s.frames,
                                                                  s.animationFrameId)])
  IN  IF t.drawn.ran /\ ~t.drawn.ends THEN t
      ELSE [t EXCEPT !.arInfo = Status("pointing", 0, "", 0)]

\* the end of the try block of startARMode, from startAR() on, and its catch
FinishStart(s) ==
  IF ~platform.orientation THEN stopAR(s)
  ELSE IF startAR(s).drawn.ran /\ ~startAR(s).drawn.ends THEN startAR(s)
  ELSE [startAR(s) EXCEPT !.isARActive = TRUE]


\* the next state of the AR variables that functions write
SetAR(s) ==
  /\ isARActive' = s.isARActive
  /\ arStream' = s.arStream
  /\ streams' = s.streams
  /\ deviceOrientationWatcher' = s.deviceOrientationWatcher
  /\ listening' = s.listening
  /\ animationFrameId' = s.animationFrameId
  /\ frames' = s.frames
  /\ arInfo' = s.arInfo
  /\ drawn' = s.drawn

ARTask(pc, stream) == [pc |-> pc, stream |-> stream]
\* ids of streams that are neither live nor held by a suspended call
FreeStreamIds ==
  (1..MaxStreams) \ (streams \cup {arStream} \cup {arTasks[i].stream : i \in 1..Len(arTasks)})
NewStreamId == CHOOSE i \in FreeStreamIds : \A j \in FreeStreamIds : i <= j

\* a click on the AR button
ARButtonClick(size) ==
  /\ ~Hung
  /\ ~MicrotaskPending
  /\ IF isARActive
     THEN \* stopAR()
          /\ SetAR(stopAR(CurrentAR))
          /\ notice' = "none"
          /\ ev' = Event("arbutton", "stop", FALSE, TRUE)
          /\ UNCHANGED <<arCanvas, arTasks>>
     ELSE IF ~platform.media
     THEN \* startARMode throws before its first await
          /\ SetAR(stopAR(CurrentAR))
          /\ notice' = "ar-no-camera"
          /\ ev' = Event("arbutton", "failed", FALSE, TRUE)
          /\ UNCHANGED <<arCanvas, arTasks>>
     ELSE \* startARMode runs up to await getUserMedia
          /\ Len(arTasks) < MaxARTasks
          /\ arCanvas' = size
          /\ arTasks' = Append(arTasks, ARTask("camera", 0))
          /\ notice' = "none"
          /\ ev' = Event("arbutton", "start", FALSE, TRUE)
          /\ UNCHANGED <<isARActive, arStream, streams, deviceOrientationWatcher,
                         listening, animationFrameId, frames, arInfo, drawn>>
  /\ UNCHANGED <<mapVars, userLocation, currentHeading, hidden, platform, lastEvent>>

\* a click on the exit button: stopAR()
ExitClick ==
  /\ ~Hung
  /\ ~MicrotaskPending
  /\ SetAR(stopAR(CurrentAR))
  /\ notice' = "none"
  /\ ev' = Event("exit", "-", FALSE, TRUE)
  /\ UNCHANGED <<mapVars, userLocation, arCanvas, currentHeading, hidden,
                 platform, arTasks, lastEvent>>

\* startARMode call i goes on after its last await
StartCompletes(i) ==
  /\ arRenderLoopEnabled([CurrentAR EXCEPT !.isARActive = isARActive /\ platform.orientation])
  /\ SetAR(FinishStart(CurrentAR))
  /\ arTasks' = RemoveAt(arTasks, i)
  /\ notice' = IF platform.orientation THEN "ar-activated" ELSE "ar-no-orientation"
  /\ ev' = Event("startARMode", IF platform.orientation THEN "active" ELSE "failed",
                 FALSE, TRUE)

\* startARMode call i fails at an await: the catch block
StartFails(i, reason) ==
  /\ SetAR(stopAR(CurrentAR))
  /\ arTasks' = RemoveAt(arTasks, i)
  /\ notice' = reason
  /\ ev' = Event("startARMode", "failed", FALSE, TRUE)

\* getUserMedia resolves with a stream, or rejects
CameraResolves(i, granted) ==
  /\ ~Hung
  /\ ~MicrotaskPending
  /\ arTasks[i].pc = "camera"
  /\ IF granted
     THEN \* arStream = await ...; arVideo.srcObject = arStream; await arVideo.play()
          /\ FreeStreamIds # {}
          /\ arStream' = NewStreamId
          /\ streams' = streams \cup {NewStreamId}
          /\ arTasks' = [arTasks EXCEPT ![i] = ARTask("play", NewStreamId)]
          /\ notice' = "none"
          /\ ev' = Event("camera", "granted", FALSE, TRUE)
          /\ UNCHANGED <<isARActive, deviceOrientationWatcher, listening,
                         animationFrameId, frames, arInfo, drawn>>
     ELSE StartFails(i, "ar-camera-denied")
  /\ UNCHANGED <<mapVars, userLocation, arCanvas, currentHeading, hidden,
                 platform, lastEvent>>

\* arVideo.play() resolves, or rejects
PlayResolves(i, played) ==
  /\ ~Hung
  /\ ~MicrotaskPending
  /\ arTasks[i].pc = "play"
  /\ IF ~played THEN StartFails(i, "ar-play-failed")
     ELSE IF platform.permission
     THEN \* await DeviceOrientationEvent.requestPermission()
          /\ arTasks' = [arTasks EXCEPT ![i].pc = "permission"]
          /\ notice' = "none"
          /\ ev' = Event("play", "played", FALSE, TRUE)
          /\ UNCHANGED <<isARActive, arStream, streams, deviceOrientationWatcher,
                         listening, animationFrameId, frames, arInfo, drawn>>
     ELSE StartCompletes(i)
  /\ UNCHANGED <<mapVars, userLocation, arCanvas, currentHeading, hidden,
                 platform, lastEvent>>

\* DeviceOrientationEvent.requestPermission() resolves
PermissionResolves(i, granted) ==
  /\ ~Hung
  /\ ~MicrotaskPending
  /\ arTasks[i].pc = "permission"
  /\ IF granted THEN StartCompletes(i) ELSE StartFails(i, "ar-permission-denied")
  /\ UNCHANGED <<mapVars, userLocation, arCanvas, currentHeading, hidden,
                 platform, lastEvent>>

\* the browser runs a pending animation frame callback: arRenderLoop
Frame(id) ==
  /\ ~Hung
  /\ ~MicrotaskPending
  /\ ~hidden
  /\ id \in frames
  /\ arRenderLoopEnabled([CurrentAR EXCEPT !.frames = frames \ {id}])
  /\ SetAR(arRenderLoop([CurrentAR EXCEPT !.frames = frames \ {id}]))
  /\ notice' = "none"
  /\ ev' = Event("frame", IF isARActive THEN "drawn" ELSE "idle", FALSE, TRUE)
  /\ UNCHANGED <<mapVars, userLocation, arCanvas, currentHeading, hidden,
                 platform, arTasks, lastEvent>>

\* document visibilitychange
VisibilityChange ==
  /\ ~Hung
  /\ ~MicrotaskPending
  /\ hidden' = ~hidden
  /\ IF hidden' /\ isARActive
     THEN SetAR([CurrentAR EXCEPT
                   !.frames = cancelAnimationFrame(frames, animationFrameId),
                   !.animationFrameId = 0])
     ELSE IF ~hidden' /\ isARActive
     THEN /\ arRenderLoopEnabled(CurrentAR)
          /\ SetAR(arRenderLoop(CurrentAR))
     ELSE SetAR(CurrentAR)
  /\ notice' = "none"
  /\ ev' = Event("visibilitychange", IF hidden' THEN "hidden" ELSE "visible", FALSE, TRUE)
  /\ UNCHANGED <<mapVars, userLocation, arCanvas, currentHeading, platform,
                 arTasks, lastEvent>>

\* window orientationchange, 100 ms later: the canvas takes the window's size
OrientationChange(size) ==
  /\ ~Hung
  /\ ~MicrotaskPending
  /\ size # arCanvas
  /\ isARActive
  /\ arCanvas' = size
  /\ notice' = "none"
  /\ ev' = Event("orientationchange", "-", FALSE, TRUE)
  /\ UNCHANGED <<mapVars, userLocation, currentHeading, isARActive, arStream,
                 deviceOrientationWatcher, animationFrameId, arInfo, hidden,
                 platform, arTasks, streams, listening, frames, lastEvent, drawn>>

\* a deviceorientation event: <<>> = null or undefined, <<x>> = the reading x
OrientationEvent(absolute, alpha, webkitCompassHeading) ==
  [absolute |-> absolute, alpha |-> alpha,
   webkitCompassHeading |-> webkitCompassHeading]

\* faulty variant: the compass heading is preferred to an absolute alpha
deviceOrientationHandler_Compass(event, heading) ==
  IF event.webkitCompassHeading # <<>> THEN event.webkitCompassHeading[1]
  ELSE IF event.alpha # <<>> THEN event.alpha[1]
  ELSE heading

\* currentHeading after deviceOrientationHandler(event)
deviceOrientationHandler(event, heading) ==
  IF event.absolute /\ event.alpha # <<>> THEN event.alpha[1]
  ELSE IF event.webkitCompassHeading # <<>> THEN event.webkitCompassHeading[1]
  ELSE IF event.alpha # <<>> THEN event.alpha[1]
  ELSE heading

\* the window dispatches an orientation event to the registered listener
DeviceOrientation(event) ==
  /\ ~Hung
  /\ ~MicrotaskPending
  /\ listening
  /\ currentHeading' = deviceOrientationHandler(event, currentHeading)
  /\ lastEvent' = <<event>>
  /\ notice' = "none"
  /\ ev' = Event("deviceorientation", "-", FALSE, TRUE)
  /\ UNCHANGED <<mapVars, userLocation, arCanvas, isARActive, arStream,
                 deviceOrientationWatcher, animationFrameId, arInfo, hidden,
                 platform, arTasks, streams, listening, frames, drawn>>

\* ---------------------------------------------------------- specifications
\* The viewport fetch controller within one cache lifetime: every handler of
\* the controller, from a fresh page, in a session shorter than
\* CACHE_EXPIRE_TIME (the clock does not reach the next instant).
Next ==
  \/ \E v \in Views : MoveEnd(v)
  \/ \E t \in timers : TimerFire(t)
  \/ LocationFound
  \/ LocationError
  \/ RefreshClick
  \/ \E i \in 1..Len(fetches), r \in Responses : fetchFountainsResume(i, r)
  \/ \E i \in 1..Len(fetches) : fetchFountainsCancelled(i)
  \/ \E i \in 1..Len(fetches), r \in Responses : fetchNearbyResume(i, r)
  \/ \E i \in 1..Len(fetches) : fetchNearbyCancelled(i)

Spec == Init /\ [][Next]_vars

\* The cache over time: the clock advances, the page is late in a session
\* (a refresh click empties the cache), and geolocation is unavailable (every map.locate() ends in
\* locationerror), so that fetchFountains is the only fetch.
NextCache ==
  \/ \E v \in Views : MoveEnd(v)
  \/ \E t \in timers : TimerFire(t)
  \/ LocationError
  \/ RefreshClick
  \/ Tick
  \/ \E i \in 1..Len(fetches), r \in Responses : fetchFountainsResume(i, r)
  \/ \E i \in 1..Len(fetches) : fetchFountainsCancelled(i)

SpecCache == InitCache /\ [][NextCache]_vars

\* The controller under the assumption that every remote call eventually
\* resolves or rejects: the continuation of every fetch that is alive
\* eventually runs.  (The continuation of an in-flight fetch cannot run while
\* the rejection of an aborted one is pending, hence strong fairness.)
FetchEnds(id) ==
  \E i \in 1..Len(fetches) :
    /\ fetches[i].id = id
    /\ \/ \E r \in Responses : fetchFountainsResume(i, r)
       \/ fetchFountainsCancelled(i)
       \/ \E r \in Responses : fetchNearbyResume(i, r)
       \/ fetchNearbyCancelled(i)

RemoteCallsEnd == \A id \in FetchIds : SF_vars(FetchEnds(id))

\* A session without refresh clicks, in which the map shows the world, the
\* town or the district.
LiveViews == {WorldView, ViewA, ViewB}
NextLive ==
  \/ \E v \in LiveViews : MoveEnd(v)
  \/ \E t \in timers : TimerFire(t)
  \/ LocationFound
  \/ LocationError
  \/ \E i \in 1..Len(fetches), r \in Responses : fetchFountainsResume(i, r)
  \/ \E i \in 1..Len(fetches) : fetchFountainsCancelled(i)
  \/ \E i \in 1..Len(fetches), r \in Responses : fetchNearbyResume(i, r)
  \/ \E i \in 1..Len(fetches) : fetchNearbyCancelled(i)

SpecLive == Init /\ [][NextLive]_vars /\ RemoteCallsEnd

\* The cache of a long session: the viewport fetches alone, on the clock, from
\* a cache one entry short of its limit.
NextEvict ==
  \/ \E v \in LiveViews : MoveEnd(v)
  \/ \E t \in timers : TimerFire(t)
  \/ Tick
  \/ \E i \in 1..Len(fetches), r \in Responses : fetchFountainsResume(i, r)
  \/ \E i \in 1..Len(fetches) : fetchFountainsCancelled(i)

SpecEvict == InitCache /\ [][NextEvict]_vars

\* Neighbouring viewports in an area rich in sources: the user pans between
\* two spots of one neighbourhood and the district, from a fresh page, and
\* an answer holds ManyElems elements.
NextKey ==
  \/ \E v \in {ViewL, ViewM, ViewB} : MoveEnd(v)
  \/ \E t \in timers : TimerFire(t)
  \/ AnimationFrame
  \/ \E i \in 1..Len(fetches), r \in Responses \cup {[kind |-> "ok", n |-> ManyElems]} :
       fetchFountainsResume(i, r)
  \/ \E i \in 1..Len(fetches) : fetchFountainsCancelled(i)

SpecKey == Init /\ [][NextKey]_vars

\* ------------------------------------------------------- the AR view data
\* Water sources around the user, by id: distance in metres and bearing in
\* degrees.  1 and 2 are equally far; 3 lies at MAX_AR_DISTANCE, half the
\* field of view to the right of north; 4 is a metre too far; 5 is half a
\* degree outside the field of view of a user looking north; 7 has no
\* coordinates; 9 lies half the field of view to the left of north.
Source(id) ==
  CASE id = 1 -> Point(1, TRUE, 120, HalfDegrees(0), "Tap")
    [] id = 2 -> Point(2, TRUE, 120, HalfDegrees(20), "")
    [] id = 3 -> Point(3, TRUE, 1000, 75, "")
    [] id = 4 -> Point(4, TRUE, 1001, HalfDegrees(0), "")
    [] id = 5 -> Point(5, TRUE, 300, HalfDegrees(38), "")
    [] id = 6 -> Point(6, TRUE, 50, HalfDegrees(180), "Fountain")
    [] id = 7 -> Point(7, FALSE, 0, 0, "Pump")
    [] id = 8 -> Point(8, TRUE, 700, HalfDegrees(350), "")
    [] id = 9 -> Point(9, TRUE, 500, 645, "Spring")
    [] id = 10 -> Point(10, TRUE, 10, HalfDegrees(5), "Well")
    [] OTHER -> Point(id, TRUE, 900, HalfDegrees(10), "")

Sources(ids) == [i \in 1..Len(ids) |-> Source(ids[i])]

\* data.elements of the responses the AR view is drawn from
ElementLists ==
  {Sources(ids) : ids \in
     {<<>>, <<11, 8, 1, 2, 3, 9, 10>>, <<2, 1, 10, 9, 8, 11, 3>>,
      <<6, 4, 7, 5>>, <<3, 4, 6>>, <<2, 1>>, <<1, 2>>, <<7, 10, 6>>}
     \cup {<<i>> : i \in 1..11}}

\* the crowded list: seven sources before a user looking north
Crowd == Sources(<<11, 8, 1, 2, 3, 9, 10>>)

\* headings: north, east, south, half a degree west of north, two and a half
\* turns, a negative one, and the double 360 * 2^60
DrawHeadings ==
  {0, HalfDegrees(90), HalfDegrees(180), 719, HalfDegrees(900), -HalfDegrees(350), Huge}


\* what a sensor delivers, in every combination of the fields the handler reads
SensorEvents ==
  {OrientationEvent(abs, alpha, compass) :
     abs \in BOOLEAN,
     alpha \in {<<>>, <<0>>, <<HalfDegrees(90)>>},
     compass \in {<<>>, <<HalfDegrees(180)>>}}

\* The map after the user's first look at their surroundings: the view is the
\* one locationfound set, elements (<<>> if no fetch has succeeded, else
\* <<list>>) are loaded and cached, and no timer or fetch is pending.
InitLoaded(elements) ==
  /\ view = ViewL
  /\ now = 0
  /\ timers = {}
  /\ fetchTimeout = 1
  /\ bboxCache = IF elements = <<>> THEN <<>>
                 ELSE <<Entry(CacheKey(ViewL.bounds), elements[1], 0)>>
  /\ lastFetchBounds = <<ViewL.bounds>>
  /\ currentFetchController = 0
  /\ fetches = <<>>
  /\ fountains = elements
  /\ markersCluster = IF elements = <<>> \/ elements[1] = <<>> THEN <<>> ELSE elements
  /\ batches = <<>>
  /\ locating = 0
  /\ notice = "none"
  /\ burst = Burst(1, 1)
  /\ ev = Event("init", "-", FALSE, TRUE)

\* AR mode was entered on a phone and the page then hidden
InitEntered ==
  /\ platform = Phone
  /\ currentHeading = 0
  /\ isARActive = TRUE
  /\ arStream = 1
  /\ deviceOrientationWatcher = TRUE
  /\ animationFrameId = 0
  /\ arInfo = Status("pointing", 0, "", 0)
  /\ hidden = TRUE
  /\ arTasks = <<>>
  /\ streams = {1}
  /\ listening = TRUE
  /\ frames = {}
  /\ lastEvent = <<>>
  /\ drawn = NotDrawn

InitDraw ==
  /\ \E elements \in {<<>>} \cup {<<l>> : l \in ElementLists} : InitLoaded(elements)
  /\ userLocation \in {<<>>, <<"user">>}
  /\ arCanvas \in WindowSizes
  /\ InitEntered

NextDraw ==
  \/ VisibilityChange
  \/ \E size \in WindowSizes : OrientationChange(size)
  \/ \E id \in frames : Frame(id)
  \/ \E h \in DrawHeadings : DeviceOrientation(OrientationEvent(TRUE, <<h>>, <<>>))

\* drawAR on every input: a phone held either way, with or without a position,
\* for every element list and heading
SpecDraw == InitDraw /\ [][NextDraw]_vars

\* The heading: every kind of orientation event, in any order, while frames
\* are drawn from the crowded list.
InitSensor ==
  /\ InitLoaded(<<Crowd>>)
  /\ userLocation = <<"user">>
  /\ arCanvas = Canvas(400, 800)
  /\ InitEntered

NextSensor ==
  \/ \E e \in SensorEvents : DeviceOrientation(e)
  \/ VisibilityChange
  \/ \E id \in frames : Frame(id)

SpecSensor == InitSensor /\ [][NextSensor]_vars

\* The AR view on every platform, with the crowded list loaded and the user
\* located.
InitAR ==
  /\ InitLoaded(<<Crowd>>)
  /\ userLocation = <<"user">>
  /\ platform \in Platforms
  /\ InitIdleAR

\* the phone is held upright, and the sensor reports a turn to the east

NextAR ==
  \/ ARButtonClick(Canvas(400, 800))
  \/ ExitClick
  \/ \E i \in 1..Len(arTasks), granted \in BOOLEAN : CameraResolves(i, granted)
  \/ \E i \in 1..Len(arTasks), played \in BOOLEAN : PlayResolves(i, played)
  \/ \E i \in 1..Len(arTasks), granted \in BOOLEAN : PermissionResolves(i, granted)
  \/ \E id \in frames : Frame(id)
  \/ VisibilityChange
  \/ DeviceOrientation(OrientationEvent(TRUE, <<HalfDegrees(90)>>, <<>>))

SpecAR == InitAR /\ [][NextAR]_vars

\* ------------------------------------------------------------------ claims
InFlight == {i \in 1..Len(fetches) : fetches[i].status = "inflight"}
TimerFired == ev.op = "timer"
FetchFailed == ev.op \in {"bboxFail", "nearbyFail"}
FetchPublished == ev.op \in {"bboxOk", "nearbyOk"}
\* the cache entry the timer callback looks up for the current viewport
Cached == bboxCache[CacheIndex(bboxCache, CacheKey(view.bounds))]
HasCached == CacheIndex(bboxCache, CacheKey(view.bounds)) # 0
\* identity and status of the alive fetches
Alive(fs) == [i \in 1..Len(fs) |-> <<fs[i].id, fs[i].status>>]

\* C1: at most one fetch is in flight in every reachable state.
C1_AtMostOneInFlight == Cardinality(InFlight) <= 1

\* C2: a fetch after which a newer fetch was started never writes the cache
\* or publishes its result.
C2_SupersededNeverPublishes == ~(FetchPublished /\ ev.superseded)

\* C3: the handler of a cancelled fetch shows no notification and leaves
\* bboxCache, window._fountains, lastFetchBounds and currentFetchController
\* as they were.
C3_CancelledHandlerInert ==
  [][MicrotaskPending =>
       /\ notice' = "none"
       /\ UNCHANGED <<bboxCache, fountains, lastFetchBounds, currentFetchController>>]_vars

\* C4 as claimed, for a fetch after which no newer fetch was started: when it
\* fails, an error notification is shown and window._fountains and bboxCache
\* are what they were when the fetch started.
C4_FailureKeepsStartState ==
  (FetchFailed /\ ~ev.superseded) => (notice # "none" /\ ev.intact)

\* C4 as amended: the handler of a failed fetch shows an error notification
\* and leaves window._fountains and bboxCache as they were just before it ran.
C4_FailureHandlerInert ==
  [][FetchFailed' /\ Len(fetches') < Len(fetches) =>
       /\ notice' \in {"bbox-failed", "nearby-failed"}
       /\ UNCHANGED <<bboxCache, fountains>>]_vars

\* a fetch of either kind failed after something had been published
C4_Witness == FetchFailed /\ fountains # <<>> /\ bboxCache # <<>>

\* C5: within a burst of moveend events only the last timer stays pending;
\* after the last event the callback runs at most once, and the fetch it
\* issues is for the bounds the map has then.
C5_Debounce ==
  /\ Cardinality(timers) <= 1
  /\ \A t \in timers : t.id = fetchTimeout
  /\ burst.fires <= 1
  /\ burst.fires = 1 => timers = {}
  /\ (TimerFired /\ ev.outcome = "fetch") =>
       /\ fetches[Len(fetches)].query = <<view.bounds>>
       /\ lastFetchBounds = <<view.bounds>>

\* the callback of a burst of two or more events has run and issued a fetch
C5_Witness == burst.moves = 2 /\ burst.fires = 1 /\ TimerFired /\ ev.outcome = "fetch"

\* C6: while the map is below MIN_ZOOM_FOR_FETCH no timer is pending, and the
\* timer callback never runs there.
C6_LowZoomIdle ==
  view.zoom < 10 => (timers = {} /\ ~TimerFired)

\* a moveend below the fetch zoom has cancelled a pending timer
C6_Witness == view.zoom < 10 /\ ev.op = "moveend" /\ ev.outcome = "cancelled"

\* C7 as claimed: on a cache hit the entry's points are the current set.
C7_HitPublishesEntry ==
  (TimerFired /\ ev.outcome = "hit") => fountains = <<Cached.data>>

\* C7 as amended: when the timer callback runs, the overlap skip does not
\* apply and the cache holds an entry for the key younger than
\* CACHE_EXPIRE_TIME, the entry's first getMaxMarkersForZoom(zoom) points
\* become the current set, no fetch is started or aborted, and bboxCache and
\* lastFetchBounds stay as they were.
C7_HitPublishesLimited ==
  [][(/\ burst'.fires = burst.fires + 1
      /\ ~boundsOverlapSignificantly(lastFetchBounds, <<view.bounds>>)
      /\ HasCached
      /\ now - Cached.timestamp < 600000) =>
       /\ fountains' = <<[Cached.data EXCEPT
                           !.n = Min(Cached.data.n,
                                     IF view.zoom < 12 THEN 50
                                     ELSE IF view.zoom < 15 THEN 200
                                     ELSE IF view.zoom < 17 THEN 500 ELSE 1000)]>>
       /\ Alive(fetches') = Alive(fetches)
       /\ UNCHANGED <<bboxCache, lastFetchBounds, currentFetchController>>]_vars

\* a hit has published fewer points than the entry holds
C7_Witness ==
  /\ TimerFired /\ ev.outcome = "hit"
  /\ HasCached /\ fountains # <<>>
  /\ fountains[1].n < Cached.data.n

\* C8: bboxCache never holds more than MAX_CACHE_ENTRIES entries.
C8_CacheBounded == Len(bboxCache) <= 50

\* an insertion has filled the cache to the limit
C8_Witness == ev.op = "bboxOk" /\ Len(bboxCache) = 50

\* C9: a lookup is served from the cache iff an entry for the key exists and
\* is younger than CACHE_EXPIRE_TIME.
C9_Expiry ==
  (TimerFired /\ ev.outcome # "skip") =>
     (ev.outcome = "hit" <=> (HasCached /\ now - Cached.timestamp < 600000))

\* an entry of age CACHE_EXPIRE_TIME or more was looked up and not served
C9_Witness ==
  /\ TimerFired /\ ev.outcome = "fetch"
  /\ HasCached /\ now - Cached.timestamp >= 600000

\* C10: lastFetchBounds is null or the box of a completed fetch, so that a
\* viewport change is skipped only when a fetch has completed: with no fetch
\* in flight, a skip means a result has been published.
C10_SkipOnlyAfterCompletedFetch ==
  (TimerFired /\ ev.outcome = "skip" /\ fetches = <<>>) => fountains # <<>>

\* C11: once a timer callback has published a cached set for the current
\* viewport, no fetch that was already awaiting its response (and that no
\* newer fetch has superseded) publishes a result for another request in its
\* place.
C11_HitNotOverwritten ==
  [][~(/\ TimerFired /\ ev.outcome = "hit"
       /\ FetchPublished' /\ ~ev'.superseded
       /\ fountains' # fountains
       /\ fountains'[1].src # <<view.bounds>>)]_vars

\* C12: a fetch that leaves the set of alive fetches does so through exactly
\* one handler outcome (completed, failed or cancelled), cancelled iff it had
\* been aborted; with no fetch in flight and no timer pending
\* currentFetchController is null and a moveend can schedule; and, remote
\* calls ending, every started fetch eventually ends.
FetchAlive(id) == \E i \in 1..Len(fetches) : fetches[i].id = id
EndOps == {"bboxOk", "nearbyOk", "bboxFail", "nearbyFail", "bboxAbort", "nearbyAbort"}
C12_FetchLifecycle ==
  /\ [][Len(fetches') < Len(fetches) =>
          /\ Len(fetches') = Len(fetches) - 1
          /\ ev'.op \in EndOps
          /\ ev'.op \in {"bboxAbort", "nearbyAbort"} <=> MicrotaskPending]_vars
  /\ []((InFlight = {} /\ timers = {}) =>
          /\ fetches = <<>>
          /\ currentFetchController = 0
          /\ \A v \in Views : MoveEndEnabled(v.zoom, timers, fetchTimeout))
  /\ \A id \in FetchIds : FetchAlive(id) ~> ~FetchAlive(id)

\* a fetch has failed and the controller is idle again
C12_Witness ==
  FetchFailed /\ fetches = <<>> /\ timers = {} /\ currentFetchController = 0

\* the markers the last call of drawAR rendered, closest first
Rendered == drawn.markers
\* drawAR has been called with a known position
Called == drawn.ran /\ userLocation # <<>>
\* and has returned
Drew == Called /\ drawn.ends
\* the elements that qualify for rendering under heading h; normalizeAngle(x)
\* is the angle in (-180, 180] that differs from x by whole turns, in half
\* degrees
Qualifying(h) ==
  LET normalizeAngle(x) == 360 - ((360 - x) % 720)
  IN  {f \in {FountainsOrEmpty(fountains)[i] : i \in 1..Len(FountainsOrEmpty(fountains))} :
         /\ f.coords
         /\ f.dist <= 1000
         /\ Abs(normalizeAngle(f.bearing - h)) <= 75}

\* C13: drawAR renders at most 5 markers, in order of non-decreasing
\* distance, each within half the field of view (37.5 degrees) and within
\* MAX_AR_DISTANCE.
C13_RenderedBounded ==
  /\ Len(Rendered) <= 5
  /\ \A k \in 1..(Len(Rendered) - 1) : Rendered[k].dist <= Rendered[k + 1].dist
  /\ \A k \in 1..Len(Rendered) :
       Abs(Rendered[k].relativeAngle) <= 75 /\ Rendered[k].dist <= 1000

\* five of seven qualifying sources are rendered, two of them equally far and
\* one at the edge of the field of view
C13_Witness ==
  /\ Drew /\ Cardinality(Qualifying(drawn.heading)) = 7
  /\ Len(Rendered) = 5
  /\ \E k \in 1..4 : Rendered[k].dist = Rendered[k + 1].dist
  /\ \E k \in 1..5 : Abs(Rendered[k].relativeAngle) = 75

\* C14: the markers of a call of drawAR are min(5, n) distinct qualifying
\* elements and no qualifying element left out is strictly closer than a
\* rendered one; an element in reach whose bearing is the heading is among
\* the qualifying ones, rendered with angle 0, and one whose bearing is
\* opposite to the heading is not rendered.
C14_ClosestQualifying ==
  LET RenderedIds == {Rendered[k].id : k \in 1..Len(Rendered)}
  IN
  Called =>
    /\ Len(Rendered) = Min(5, Cardinality(Qualifying(drawn.heading)))
    /\ Cardinality(RenderedIds) = Len(Rendered)
    /\ RenderedIds \subseteq {f.id : f \in Qualifying(drawn.heading)}
    /\ \A f \in Qualifying(drawn.heading) :
         f.id \notin RenderedIds =>
           \A k \in 1..Len(Rendered) : Rendered[k].dist <= f.dist
    /\ \A i \in 1..Len(FountainsOrEmpty(fountains)) :
         LET f == FountainsOrEmpty(fountains)[i]
         IN  (f.coords /\ f.dist <= 1000) =>
               /\ (f.bearing - drawn.heading) % 720 = 0 =>
                    /\ f \in Qualifying(drawn.heading)
                    /\ \A k \in 1..Len(Rendered) :
                         Rendered[k].id = f.id => Rendered[k].relativeAngle = 0
               /\ (f.bearing - drawn.heading) % 720 = 360 => f.id \notin RenderedIds

\* C15: for the heading held and every element, the relative angle drawAR
\* computes exists (the loops end), lies in (-180, 180] and is the same for
\* headings that differ by whole turns.
C15_NormalizeTotal ==
  \A i \in 1..Len(FountainsOrEmpty(fountains)) :
    LET f == FountainsOrEmpty(fountains)[i]
        r == relativeAngle(f.bearing, currentHeading)
    IN  /\ r.ends
        /\ r.value > -360 /\ r.value <= 360
        /\ \A k \in -2..2 :
             relativeAngle(f.bearing, FAdd(currentHeading, 720 * k)) = r

\* C16: of two rendered markers the strictly closer one is drawn neither
\* above nor smaller than the other, and a marker at MAX_AR_DISTANCE is drawn
\* at 0.3 x canvas height with radius 10.
C16_CloserLowerAndLarger ==
  /\ \A j, k \in 1..Len(Rendered) :
       Rendered[j].dist < Rendered[k].dist =>
         /\ Rendered[j].screenY >= Rendered[k].screenY
         /\ Rendered[j].iconRadius >= Rendered[k].iconRadius
  /\ \A k \in 1..Len(Rendered) :
       Rendered[k].dist = 1000 =>
         /\ Rendered[k].screenY = 3000 * drawn.canvas.height
         /\ Rendered[k].iconRadius = 10000

\* C17: screenX is linear in the relative angle, the canvas centre at angle
\* 0 and centre +- 0.9 x half width at +-37.5 degrees; it lies on the canvas
\* and does not decrease with the angle.  (screenX in 1/1500 pixel, angles
\* in half degrees.)
C17_HorizontalLinear ==
  /\ \A k \in 1..Len(Rendered) :
       /\ (Rendered[k].screenX - 750 * drawn.canvas.width) * 75
            = Rendered[k].relativeAngle * 675 * drawn.canvas.width
       /\ Rendered[k].screenX >= 0
       /\ Rendered[k].screenX <= 1500 * drawn.canvas.width
  /\ \A j, k \in 1..Len(Rendered) :
       Rendered[j].relativeAngle >= Rendered[k].relativeAngle =>
         Rendered[j].screenX >= Rendered[k].screenX

\* markers straight ahead and at the left edge of the field of view
C17_Witness ==
  /\ Drew
  /\ \E k \in 1..Len(Rendered) :
       Rendered[k].relativeAngle = 0 /\ Rendered[k].screenX = 750 * drawn.canvas.width
  /\ \E k \in 1..Len(Rendered) :
       Rendered[k].relativeAngle = -75 /\ Rendered[k].screenX = 75 * drawn.canvas.width

\* C18: after a call of drawAR with a known position the status is the
\* distance and name of the first, nearest rendered marker if there is one,
\* else the number of elements of the current set if it has any, else the
\* "none found" message.
C18_StatusChoice ==
  Called =>
    /\ arInfo.kind \in {"nearest", "none in view", "none found"}
    /\ arInfo.kind = "nearest" <=> Len(Rendered) > 0
    /\ arInfo.kind = "nearest" =>
         /\ arInfo.dist = Rendered[1].dist /\ arInfo.name = Rendered[1].name
         /\ \A k \in 1..Len(Rendered) : Rendered[1].dist <= Rendered[k].dist
    /\ arInfo.kind = "none in view" <=>
         (Len(Rendered) = 0 /\ Len(FountainsOrEmpty(fountains)) > 0)
    /\ arInfo.kind = "none in view" => arInfo.count = Len(FountainsOrEmpty(fountains))
    /\ arInfo.kind = "none found" <=>
         (Len(Rendered) = 0 /\ Len(FountainsOrEmpty(fountains)) = 0)

\* the heading after event e, by the precedence of the readings, h before it
ResolvedHeading(e, h) ==
  IF e.absolute /\ e.alpha # <<>> THEN e.alpha[1]
  ELSE IF e.webkitCompassHeading # <<>> THEN e.webkitCompassHeading[1]
  ELSE IF e.alpha # <<>> THEN e.alpha[1]
  ELSE h
\* C19: currentHeading is 0 until an event arrives; an orientation event
\* with a usable reading sets it to alpha if the event is absolute with
\* alpha, else to webkitCompassHeading if present, else to alpha; an event
\* without a reading, and every other step, leaves it unchanged.
C19_HeadingFollowsLastReading ==
  /\ [](lastEvent = <<>> => currentHeading = 0)
  /\ [][IF ev'.op = "deviceorientation"
        THEN currentHeading' = ResolvedHeading(lastEvent'[1], currentHeading)
        ELSE currentHeading' = currentHeading]_vars

\* a non-absolute event with both readings has set the heading to the
\* compass reading
C19_Witness ==
  /\ ev.op = "deviceorientation"
  /\ lastEvent # <<>>
  /\ ~lastEvent[1].absolute
  /\ lastEvent[1].alpha # <<>>
  /\ lastEvent[1].webkitCompassHeading # <<>>
  /\ lastEvent[1].alpha # lastEvent[1].webkitCompassHeading
  /\ currentHeading = lastEvent[1].webkitCompassHeading[1]

\* C20: while AR mode is active and the page is visible the render loop
\* runs: a frame request of arRenderLoop is pending.
C20_LoopRunsWhileActive ==
  (isARActive /\ ~hidden) => (animationFrameId # 0 /\ animationFrameId \in frames)

\* C21: while AR mode is inactive or the page is hidden no animation frame is
\* pending, and no step that ends with AR mode inactive or the page hidden
\* has called drawAR (given the drawing another value).
C21_LoopSuspended ==
  /\ []((~isARActive \/ hidden) => frames = {})
  /\ [][(drawn' # drawn) => (isARActive' /\ ~hidden')]_vars

\* C22: after a failed entry into AR mode, AR mode is inactive, no camera
\* stream is held, every stream still live belongs to another call that is
\* still suspended, no orientation listener and no frame request remain, and
\* the notification names the reason.
C22_FailedEntryCleansUp ==
  (ev.outcome = "failed" /\ ev.op \in {"arbutton", "startARMode"}) =>
    /\ ~isARActive
    /\ arStream = 0
    /\ streams \subseteq {arTasks[i].stream : i \in 1..Len(arTasks)}
    /\ ~listening
    /\ frames = {}
    /\ notice \in {"ar-no-camera", "ar-camera-denied", "ar-play-failed",
                   "ar-permission-denied", "ar-no-orientation"}

\* C23: a step that runs a frame callback or draws leaves window._fountains,
\* currentHeading, userLocation, bboxCache, lastFetchBounds and
\* currentFetchController as they were, and what it draws is drawn for the
\* value currentHeading has in that step.
C23_FrameOnlyReads ==
  [][(ev'.op = "frame" \/ drawn' # drawn) =>
       /\ UNCHANGED <<fountains, currentHeading, userLocation, bboxCache,
                      lastFetchBounds, currentFetchController>>
       /\ (ev'.op = "frame" => drawn'.ran)
       /\ drawn'.heading = currentHeading]_vars

\* a frame has drawn markers for a heading that an orientation event had set
\* after the frame before it
C23_Witness ==
  /\ ev.op = "frame" /\ ev.outcome = "drawn"
  /\ lastEvent # <<>>
  /\ currentHeading = HalfDegrees(180)
  /\ drawn.heading = currentHeading
  /\ Len(Rendered) > 0
  /\ fountains # <<>> /\ bboxCache # <<>>

\* C24: a successful fetch that finds 50 or more entries in bboxCache evicts
\* exactly 25 of them, none newer than an entry that survives, and every
\* survivor stays as it was unless it is the entry written; a successful
\* fetch that finds fewer than 50 entries evicts nothing.  (Entries are
\* named by their place in the Map; the evicted ones are those whose key is
\* gone, and the old entry of the key written if it was one of the removed
\* ones.)
C24_EvictOldestHalf ==
  [][ev'.op = "bboxOk" =>
       LET k == (CHOOSE i \in 1..Len(fetches) :
                   \A j \in 1..Len(fetches') : fetches'[j].id # fetches[i].id)
           key == fetches[k].key
           newKeys == {bboxCache'[i].key : i \in 1..Len(bboxCache')}
           new == {bboxCache'[i] : i \in 1..Len(bboxCache')}
           gone == {i \in 1..Len(bboxCache) : bboxCache[i].key \notin newKeys}
           evicted == IF Cardinality(gone) = 24
                      THEN gone \cup {i \in 1..Len(bboxCache) : bboxCache[i].key = key}
                      ELSE gone
           survivors == (1..Len(bboxCache)) \ evicted
       IN  /\ Len(bboxCache) >= 50 =>
                /\ Cardinality(evicted) = 25
                /\ \A e \in evicted, s \in survivors :
                     bboxCache[s].timestamp >= bboxCache[e].timestamp
           /\ Len(bboxCache) < 50 => evicted = {}
           /\ \A s \in survivors : bboxCache[s].key # key => bboxCache[s] \in new
           /\ key \in newKeys]_vars

\* a successful fetch has found the cache full and left the 25 newest of its
\* entries and its own
C24_Witness ==
  /\ ev.op = "bboxOk"
  /\ Len(bboxCache) = 26
  /\ \A i \in 1..Len(bboxCache) : bboxCache[i].timestamp >= -25

\* C25: a timer callback that finds no fresh cache entry for the viewport,
\* whose area exceeds 100 square degrees, starts no fetch and cancels none,
\* and leaves currentFetchController, bboxCache, lastFetchBounds and
\* window._fountains as they were.  (Bounds are in hundredths of a degree.)
C25_TooLargeIsNoChange ==
  [][(/\ ev'.op = "timer"
      /\ ~(HasCached /\ now - Cached.timestamp < 10 * 60 * 1000)
      /\ (view.bounds.n - view.bounds.s) * (view.bounds.e - view.bounds.w)
           > 100 * 100 * 100)
     => UNCHANGED <<fetches, currentFetchController, bboxCache, lastFetchBounds,
                    fountains>>]_vars

\* the callback has declined a viewport of 11 x 12 degrees while a fetch was
\* in flight, which still is
C25_Witness ==
  /\ TimerFired /\ ev.outcome = "toolarge"
  /\ view = ViewBig
  /\ InFlight # {} /\ currentFetchController # 0
  /\ fountains # <<>>

\* C26: over the zoom levels at or above the fetch threshold the delay is
\* 2000 ms below zoom 12, 1000 ms below 15 and 500 ms otherwise, so that it
\* never grows with the zoom, and the timer a moveend has set carries the
\* delay of the zoom the map had at that event.
C26_DelayFollowsZoom ==
  /\ \A z1, z2 \in 10..19 : z1 <= z2 => getDelayForZoom(z1) >= getDelayForZoom(z2)
  /\ \A z \in 10..19 :
       getDelayForZoom(z) = IF z < 12 THEN 2000 ELSE IF z < 15 THEN 1000 ELSE 500
  /\ (ev.op = "moveend" /\ view.zoom >= 10) =>
       \E t \in timers :
         /\ t.id = fetchTimeout
         /\ t.delay = IF view.zoom < 12 THEN 2000
                      ELSE IF view.zoom < 15 THEN 1000 ELSE 500

\* a moveend at zoom 16 has replaced the pending timer by one of 500 ms
C26_Witness ==
  /\ ev.op = "moveend" /\ ev.outcome = "rescheduled"
  /\ view.zoom = 16
  /\ timers = {Timer(fetchTimeout, 500)}

\* C27: currentFetchController is non-null iff a fetch is in flight, and a
\* non-null controller is that of the fetch started last.
C27_ControllerTracksFetch ==
  /\ (currentFetchController # 0) <=> (InFlight # {})
  /\ currentFetchController # 0 =>
       /\ fetches # <<>>
       /\ fetches[Len(fetches)].id = currentFetchController

\* C28: once stopAR has run the orientation listener is not registered, so
\* that an orientation event delivered while AR mode is inactive leaves
\* currentHeading unchanged, after any number of start/stop cycles.
C28_ListenerRemovedOnStop ==
  /\ [](ev.op = "exit" => ~listening)
  /\ [][(ev'.op = "deviceorientation" /\ ~isARActive) =>
          currentHeading' = currentHeading]_vars

\* C29: whenever the timer callback has served a cache hit, the bounding box
\* the published entry was fetched for overlaps the viewport the map shows.
C29_HitOverlapsView ==
  (ev.op = "timer" /\ ev.outcome = "hit") =>
    LET c == Cached.data.src[1]
        b == view.bounds
    IN  c.s <= b.n /\ b.s <= c.n /\ c.w <= b.e /\ b.w <= c.e

\* C30: once every pending processBatch callback has run, markersCluster
\* holds exactly the markers of the most recent renderMarkers call, and at no
\* time does it hold markers of an earlier call.
C30_MarkersFollowLastCall ==
  /\ [](batches = <<>> =>
          markersCluster = IF fountains = <<>> \/ fountains[1].n = 0
                           THEN <<>> ELSE fountains)
  /\ [][\A i \in 1..Len(markersCluster') :
          fountains' # <<>> /\ markersCluster'[i] = fountains'[1]]_vars

\* C31: every camera stream that was acquired and has not been stopped is the
\* one held in arStream, also when the AR button is clicked again while an
\* earlier startARMode call is suspended, and once stopAR has run after a
\* click on the exit button no acquired stream is live.
C31_NoStreamLeftLive ==
  /\ streams \subseteq {arStream}
  /\ ev.op = "exit" => streams = {}

====
